---- MODULE Spec2Model ----
(***************************************************************************)
(* CloudVault: the metadata store (server/storage.ts, JsonStorage) and the  *)
(* request handlers that drive it (server/routes.ts).                       *)
(*                                                                         *)
(* The store keeps three arrays (users, folders, files) in memory, writes   *)
(* each to its own JSON file, and unlinks uploaded bytes from the uploads   *)
(* directory.  routes.ts registers two generations of handlers: the first   *)
(* (lines 62-533) looks a record up and compares its userId with the        *)
(* session's user before it mutates; the second (lines 594-842) passes the  *)
(* request straight to the store.  Both are modelled, the second under      *)
(* names ending in V2.                                                      *)
(***************************************************************************)
EXTENDS Integers, Sequences, FiniteSets, TLC

(***************************************************************************)
(* Bounds of the model.                                                     *)
(***************************************************************************)
MaxUsers   == 3      \* user records ever created
MaxFolders == 3      \* length of the folders array
MaxFiles   == 2      \* length of the files array
MaxUploads == 3      \* uploads accepted by multer (distinct storage paths)
MaxClock   == 2      \* readings of the wall clock

(***************************************************************************)
(* Values.  JSON null is 0 for ids and timestamps (ids and timestamps of    *)
(* the program start at 1); a field that is absent from a record reads as   *)
(* undefined.                                                               *)
(***************************************************************************)
Null        == 0
UndefinedAt == -1
True        == "true"
False       == "false"
Undefined   == "undefined"

UserIds   == 1..MaxUsers
FolderIds == 1..MaxFolders
FileIds   == 1..MaxFiles
Paths     == 1..MaxUploads
Usernames == {"demo", "alice"}

VARIABLES
  users,      \* JsonStorage.users   (in memory)
  folders,    \* JsonStorage.folders (in memory)
  files,      \* JsonStorage.files   (in memory)
  dbUsers,    \* data/users.json
  dbFolders,  \* data/folders.json
  dbFiles,    \* data/files.json
  disk,       \* paths under uploads/ that hold bytes
  uploads,    \* number of files multer has stored so far
  now,        \* the wall clock
  last,       \* the request that was answered last
  issued,     \* history: the ids each collection's create has returned so far
  purged,     \* history: id and path of the file records a hard delete removed
  pending,    \* requests that have arrived and wait for the event loop
  run,        \* handlers in flight, each with its position and its locals
  cpu         \* the handler in run that is inside a synchronous stretch, 0 if none

vars == <<users, folders, files, dbUsers, dbFolders, dbFiles, disk, uploads, now,
          last, issued, purged, pending, run, cpu>>

(***************************************************************************)
(* Array helpers.                                                           *)
(***************************************************************************)
\* Array.prototype.findIndex on a predicate "record.id === id": the first
\* index (1-based) whose record has that id, 0 for -1.
FindIndex(arr, id) ==
  IF \E i \in 1..Len(arr) : arr[i].id = id
  THEN CHOOSE i \in 1..Len(arr) :
         /\ arr[i].id = id
         /\ \A j \in 1..(i - 1) : arr[j].id # id
  ELSE 0

\* Array.prototype.splice(index, 1).
Splice(arr, i) == SubSeq(arr, 1, i - 1) \o SubSeq(arr, i + 1, Len(arr))

\* Object spread { ...record, ...data }: the fields of data override.
Merge(record, data) ==
  [k \in DOMAIN record \cup DOMAIN data |->
     IF k \in DOMAIN data THEN data[k] ELSE record[k]]

(***************************************************************************)
(* The store.  Every operation of JsonStorage is an operator from the       *)
(* store's state (a record of the arrays, the three JSON files and the      *)
(* uploads directory) to the state it leaves and the value it returns.      *)
(***************************************************************************)
Store ==
  [users |-> users, folders |-> folders, files |-> files,
   dbUsers |-> dbUsers, dbFolders |-> dbFolders, dbFiles |-> dbFiles,
   disk |-> disk]

\* saveUsers / saveFolders / saveFiles: writeJsonFile of the whole array.
saveUsers(s)   == [s EXCEPT !.dbUsers = s.users]
saveFolders(s) == [s EXCEPT !.dbFolders = s.folders]
saveFiles(s)   == [s EXCEPT !.dbFiles = s.files]

\* fs.existsSync(path) followed by fs.unlinkSync(path).
Unlink(d, path) == d \ {path}

\* getUserByUsername: the first user with that name, Null if there is none.
getUserByUsername(s, username) ==
  IF \E i \in 1..Len(s.users) : s.users[i].username = username
  THEN LET i == CHOOSE i \in 1..Len(s.users) :
                  /\ s.users[i].username = username
                  /\ \A j \in 1..(i - 1) : s.users[j].username # username
       IN s.users[i].id
  ELSE Null

\* createUser: id = users.length + 1, push, saveUsers.
createUser(s, username) ==
  LET id   == Len(s.users) + 1
      user == [id |-> id, username |-> username]
  IN [st  |-> saveUsers([s EXCEPT !.users = Append(s.users, user)]),
      ret |-> user]

\* createFolder: id = folders.length + 1; the insert is spread into the record
\* as it came (name included, whatever it is); parentId || null; push;
\* saveFolders.  Nothing is checked and nothing throws.  The record has no
\* isDeleted and no deletedAt unless the insert carries them.
createFolder(s, insertFolder) ==
  LET id     == Len(s.folders) + 1
      folder == Merge(Merge([isDeleted |-> Undefined, deletedAt |-> UndefinedAt],
                            insertFolder),
                      [id       |-> id,
                       parentId |-> IF "parentId" \in DOMAIN insertFolder
                                    THEN insertFolder.parentId ELSE Null])
  IN [st  |-> saveFolders([s EXCEPT !.folders = Append(s.folders, folder)]),
      ret |-> folder]

\* getFolderById: Array.prototype.find, the first record with that id.
getFolderById(s, id) == FindIndex(s.folders, id)

\* getFoldersByParentId.
getFoldersByParentId(s, parentId, userId) ==
  LET Keep(f) == f.parentId = parentId /\ f.userId = userId
  IN SelectSeq(s.folders, Keep)

\* updateFolder: findIndex, spread the patch over the record, saveFolders.
\* ret is the index that was written, 0 for undefined.
updateFolder(s, id, data) ==
  LET folderIndex == FindIndex(s.folders, id)
  IN IF folderIndex = 0
     THEN [st |-> s, ret |-> 0]
     ELSE [st  |-> saveFolders([s EXCEPT !.folders[folderIndex] =
                                   Merge(s.folders[folderIndex], data)]),
           ret |-> folderIndex]

(***************************************************************************)
(* deleteFolder.  The first loop walks the files array it started with      *)
(* (this.files is re-assigned, never mutated, inside the loop) and, for     *)
(* each file placed in the folder, drops every file with that file's id     *)
(* and unlinks that file's bytes; saveFiles is not called.  The second      *)
(* loop is a for-of over this.folders itself: the recursive calls splice    *)
(* that same array, and the iterator goes on from the next index of the     *)
(* array as it then is.  A call nested deeper than StackDepth never         *)
(* returns in the program (the recursion repeats a folder id): it ends in   *)
(* a RangeError, modelled by threw.                                         *)
(***************************************************************************)
StackDepth == 2 * MaxFolders + 2

\* The files loop of deleteFolder (lines 163-170).
DeleteFilesOf(s, id) ==
  LET placed == {i \in 1..Len(s.files) : s.files[i].folderId = id}
      gone   == {s.files[i].id   : i \in placed}
      paths  == {s.files[i].path : i \in placed}
      Keep(f) == f.id \notin gone
  IN [s EXCEPT !.files = SelectSeq(s.files, Keep), !.disk = s.disk \ paths]

RECURSIVE deleteFolderAt(_, _, _)
RECURSIVE DeleteSubfolders(_, _, _, _)

\* The subfolder loop (lines 173-177), at index i of the live array.
DeleteSubfolders(r, id, i, depth) ==
  IF r.threw \/ i > Len(r.st.folders)
  THEN r
  ELSE IF r.st.folders[i].parentId = id
       THEN DeleteSubfolders(deleteFolderAt(r.st, r.st.folders[i].id, depth + 1),
                             id, i + 1, depth)
       ELSE DeleteSubfolders(r, id, i + 1, depth)

deleteFolderAt(s, id, depth) ==
  IF depth > StackDepth
  THEN [st |-> s, ret |-> FALSE, threw |-> TRUE]
  ELSE LET r == DeleteSubfolders([st |-> DeleteFilesOf(s, id), ret |-> FALSE,
                                  threw |-> FALSE], id, 1, depth)
           folderIndex == FindIndex(r.st.folders, id)
       IN IF r.threw
          THEN r
          ELSE IF folderIndex = 0
               THEN [st |-> r.st, ret |-> FALSE, threw |-> FALSE]
               ELSE [st    |-> saveFolders([r.st EXCEPT !.folders =
                                              Splice(r.st.folders, folderIndex)]),
                     ret   |-> TRUE,
                     threw |-> FALSE]

deleteFolder(s, id) == deleteFolderAt(s, id, 1)

(***************************************************************************)
(* File operations.                                                         *)
(***************************************************************************)
\* createFile: id = files.length + 1; name, size, path, userId and folderId
\* are taken from the insert as they came; isShared 0; updatedAt now; push;
\* saveFiles.  Nothing is checked and nothing throws.  (The name is carried
\* where the caller of the model gives one.)
createFile(s, insertFile, t) ==
  LET id   == Len(s.files) + 1
      file == Merge([id        |-> id,
                     size      |-> insertFile.size,
                     path      |-> insertFile.path,
                     userId    |-> insertFile.userId,
                     folderId  |-> insertFile.folderId,
                     isShared  |-> False,
                     updatedAt |-> t,
                     isDeleted |-> Undefined,
                     deletedAt |-> UndefinedAt],
                    [k \in DOMAIN insertFile \cap {"name"} |-> insertFile[k]])
  IN [st  |-> saveFiles([s EXCEPT !.files = Append(s.files, file)]),
      ret |-> file]

\* getFileById: the first record with that id (index, 0 for undefined).
getFileById(s, id) == FindIndex(s.files, id)

\* getFilesByFolderId.
getFilesByFolderId(s, folderId, userId) ==
  LET Keep(f) == f.folderId = folderId /\ f.userId = userId
  IN SelectSeq(s.files, Keep)

updateFilePatchLast(s, id, data, t) ==
  LET fileIndex == FindIndex(s.files, id)
  IN IF fileIndex = 0
     THEN [st |-> s, ret |-> 0]
     ELSE [st  |-> saveFiles([s EXCEPT !.files[fileIndex] =
                      Merge(Merge(s.files[fileIndex], [updatedAt |-> t]), data)]),
           ret |-> fileIndex]

\* updateFile: spread the patch over the record, then updatedAt = now.
updateFile(s, id, data, t) ==
  LET fileIndex == FindIndex(s.files, id)
  IN IF fileIndex = 0
     THEN [st |-> s, ret |-> 0]
     ELSE [st  |-> saveFiles([s EXCEPT !.files[fileIndex] =
                      Merge(Merge(s.files[fileIndex], data), [updatedAt |-> t])]),
           ret |-> fileIndex]

\* deleteFile: splice the first record with that id, unlink its bytes, saveFiles.
deleteFile(s, id) ==
  LET fileIndex == FindIndex(s.files, id)
  IN IF fileIndex = 0
     THEN [st |-> s, ret |-> FALSE]
     ELSE [st  |-> saveFiles([s EXCEPT !.files = Splice(s.files, fileIndex),
                                       !.disk  = Unlink(s.disk, s.files[fileIndex].path)]),
           ret |-> TRUE]

(***************************************************************************)
(* Requests.  The session's user is any registered user.  A request body    *)
(* is JSON the client chooses: the patches below are the ones the client    *)
(* components send (trash, restore) and the single-field patches a caller   *)
(* can send to the same routes.                                             *)
(***************************************************************************)
Callers == {users[i].id : i \in 1..Len(users)}

\* FolderCard.handleMoveToTrash / FileCard: { isDeleted: true, deletedAt: now }.
TrashPatch(t) == [isDeleted |-> True, deletedAt |-> t]
\* FolderCard.handleRestore / FileCard: { isDeleted: false, deletedAt: null }.
RestorePatch  == [isDeleted |-> False, deletedAt |-> Null]

FolderPatches ==
  {[parentId |-> p] : p \in {Null} \cup FolderIds}
    \cup {TrashPatch(now), RestorePatch}
    \cup {[userId |-> u] : u \in UserIds}
    \cup {[id |-> i] : i \in FolderIds}

FilePatches ==
  {[folderId |-> g] : g \in {Null} \cup FolderIds}
    \cup {TrashPatch(now), RestorePatch}
    \cup {[userId |-> u] : u \in UserIds}
    \cup {[id |-> i] : i \in FileIds}
    \cup {[path |-> p] : p \in Paths}

\* delete updateData.userId; delete updateData.id (routes.ts 138-140, 391-393).
Sanitize(body) == [k \in DOMAIN body \ {"userId", "id"} |-> body[k]]

\* The file records of before that are not in after, by id and path.
Gone(before, after) ==
  {[id |-> before[i].id, path |-> before[i].path] :
     i \in {j \in 1..Len(before) :
              \A k \in 1..Len(after) : after[k].path # before[j].path}}

\* The state the store is left in.
Leaves(s) ==
  /\ users' = s.users
  /\ folders' = s.folders
  /\ files' = s.files
  /\ dbUsers' = s.dbUsers
  /\ dbFolders' = s.dbFolders
  /\ dbFiles' = s.dbFiles
  /\ disk' = s.disk

\* The state the store is left in, and the response, of a handler taken in
\* one piece: no request is left waiting or in flight by it.
Answer(s, op, status) ==
  /\ Leaves(s)
  /\ last' = [op |-> op, status |-> status]
  /\ UNCHANGED <<pending, run, cpu>>

Init ==
  /\ users = <<[id |-> 1, username |-> "demo"]>>
  /\ dbUsers = users
  /\ folders = <<>>
  /\ dbFolders = <<>>
  /\ files = <<>>
  /\ dbFiles = <<>>
  /\ disk = {}
  /\ uploads = 0
  /\ now = 1
  /\ last = [op |-> "start", status |-> 0]
  /\ issued = [users |-> {1}, folders |-> {}, files |-> {}]
  /\ purged = {}
  /\ pending = {}
  /\ run = <<>>
  /\ cpu = 0

\* The wall clock advances.
Tick ==
  /\ now' = now + 1
  /\ UNCHANGED <<users, folders, files, dbUsers, dbFolders, dbFiles, disk, uploads, last,
               issued, purged, pending, run, cpu>>

\* Registration: a new user under a name that is not taken.
Register(username) ==
  /\ getUserByUsername(Store, username) = Null
  /\ Answer(createUser(Store, username).st, "register", 201)
  /\ issued' = [issued EXCEPT !.users = @ \cup {createUser(Store, username).ret.id}]
  /\ UNCHANGED <<uploads, now, purged>>

\* POST /api/folders (routes.ts 98-119 and 625-649).
PostFolder(user, parentId) ==
  /\ Answer(createFolder(Store, [parentId |-> parentId, userId |-> user]).st,
            "postFolder", 201)
  /\ issued' = [issued EXCEPT !.folders = @ \cup
                  {createFolder(Store, [parentId |-> parentId, userId |-> user]).ret.id}]
  /\ UNCHANGED <<uploads, now, purged>>

\* PATCH /api/folders/:id, first generation (routes.ts 122-156).
PatchFolder(user, id, body) ==
  LET found == getFolderById(Store, id)
      r     == updateFolder(Store, id, Sanitize(body))
  IN /\ IF found = 0 \/ folders[found].userId # user
        THEN Answer(Store, "patchFolder", 404)
        ELSE Answer(r.st, "patchFolder", IF r.ret = 0 THEN 404 ELSE 200)
     /\ UNCHANGED <<uploads, now, issued, purged>>

\* PATCH /api/folders/:id, second generation (routes.ts 651-664).
PatchFolderV2(user, id, body) ==
  LET r == updateFolder(Store, id, body)
  IN /\ Answer(r.st, "patchFolderV2", IF r.ret = 0 THEN 404 ELSE 200)
     /\ UNCHANGED <<uploads, now, issued, purged>>

\* DELETE /api/folders/:id, first generation (routes.ts 159-186).
DeleteFolder(user, id) ==
  LET found == getFolderById(Store, id)
      r     == deleteFolder(Store, id)
  IN /\ IF found = 0 \/ folders[found].userId # user
        THEN Answer(Store, "deleteFolder", 404)
        ELSE Answer(r.st, "deleteFolder",
                    IF r.threw \/ ~r.ret THEN 500 ELSE 204)
     /\ purged' = purged \cup Gone(files, files')
     /\ UNCHANGED <<uploads, now, issued>>

\* DELETE /api/folders/:id, second generation (routes.ts 666-679).
DeleteFolderV2(user, id) ==
  LET r == deleteFolder(Store, id)
  IN /\ Answer(r.st, "deleteFolderV2",
               IF r.threw THEN 500 ELSE IF r.ret THEN 204 ELSE 404)
     /\ purged' = purged \cup Gone(files, files')
     /\ UNCHANGED <<uploads, now, issued>>

\* The loop of POST /api/upload over the files multer stored: createFile for
\* each, with the path multer gave it.  JsonStorage.createFile does not reject.
RECURSIVE SaveUploaded(_, _, _, _, _, _)
SaveUploaded(s, user, folderId, sizes, path, t) ==
  IF sizes = <<>>
  THEN s
  ELSE SaveUploaded(createFile(s, [size |-> Head(sizes), path |-> path,
                                   userId |-> user, folderId |-> folderId], t).st,
                    user, folderId, Tail(sizes), path + 1, t)

\* The request bodies of an upload: one or two files of a modelled size.
Sizes == {1, 2}
UploadBatches == {<<z>> : z \in Sizes} \cup {<<1, 2>>}

\* POST /api/upload (routes.ts 230-305 and 715-761); POST /api/files with one
\* file (309-352).  multer has written the bytes before the handler runs.
Upload(user, folderId, sizes) ==
  /\ Answer(SaveUploaded([Store EXCEPT !.disk = disk \cup
                                         (uploads + 1)..(uploads + Len(sizes))],
                         user, folderId, sizes, uploads + 1, now),
            "upload", 201)
  /\ uploads' = uploads + Len(sizes)
  /\ issued' = [issued EXCEPT !.files = @ \cup
                  (Len(files) + 1)..(Len(files) + Len(sizes))]
  /\ UNCHANGED <<now, purged>>

\* GET /api/files/:id, first generation (routes.ts 355-372).
GetFile(user, id) ==
  LET found == getFileById(Store, id)
  IN /\ Answer(Store, "getFile",
               IF found = 0 \/ files[found].userId # user THEN 404 ELSE 200)
     /\ UNCHANGED <<uploads, now, issued, purged>>

\* GET /api/files/:id, second generation (routes.ts 763-776).
GetFileV2(user, id) ==
  /\ Answer(Store, "getFileV2",
            IF getFileById(Store, id) = 0 THEN 404 ELSE 200)
  /\ UNCHANGED <<uploads, now, issued, purged>>

\* GET /api/download/:id, first generation (routes.ts 441-466).
Download(user, id) ==
  LET found == getFileById(Store, id)
  IN /\ Answer(Store, "download",
               IF found = 0 \/ files[found].userId # user THEN 404
               ELSE IF files[found].path \notin disk THEN 404 ELSE 200)
     /\ UNCHANGED <<uploads, now, issued, purged>>

\* GET /api/download/:id, second generation (routes.ts 822-839).
DownloadV2(user, id) ==
  LET found == getFileById(Store, id)
  IN /\ Answer(Store, "downloadV2",
               IF found = 0 THEN 404
               ELSE IF files[found].path \notin disk THEN 404 ELSE 200)
     /\ UNCHANGED <<uploads, now, issued, purged>>

\* PATCH /api/files/:id, first generation (routes.ts 375-407).
PatchFile(user, id, body) ==
  LET found == getFileById(Store, id)
      r     == updateFile(Store, id, Sanitize(body), now)
  IN /\ IF found = 0 \/ files[found].userId # user
        THEN Answer(Store, "patchFile", 404)
        ELSE Answer(r.st, "patchFile", IF r.ret = 0 THEN 404 ELSE 200)
     /\ UNCHANGED <<uploads, now, issued, purged>>

\* PATCH /api/files/:id, second generation (routes.ts 778-791).
PatchFileV2(user, id, body) ==
  LET r == updateFile(Store, id, body, now)
  IN /\ Answer(r.st, "patchFileV2", IF r.ret = 0 THEN 404 ELSE 200)
     /\ UNCHANGED <<uploads, now, issued, purged>>

\* DELETE /api/files/:id, first generation (routes.ts 410-438).
DeleteFile(user, id) ==
  LET found == getFileById(Store, id)
      r     == deleteFile(Store, id)
  IN /\ IF found = 0 \/ files[found].userId # user
        THEN Answer(Store, "deleteFile", 404)
        ELSE Answer(r.st, "deleteFile", IF r.ret THEN 204 ELSE 500)
     /\ purged' = purged \cup Gone(files, files')
     /\ UNCHANGED <<uploads, now, issued>>

\* DELETE /api/files/:id, second generation (routes.ts 793-820): the handler
\* unlinks the bytes itself, then calls deleteFile.
DeleteFileV2(user, id) ==
  LET found == getFileById(Store, id)
      r     == deleteFile([Store EXCEPT !.disk = Unlink(disk, files[found].path)], id)
  IN /\ IF found = 0
        THEN Answer(Store, "deleteFileV2", 404)
        ELSE Answer(r.st, "deleteFileV2", IF r.ret THEN 204 ELSE 404)
     /\ purged' = purged \cup Gone(files, files')
     /\ UNCHANGED <<uploads, now, issued>>

\* The process starts again: the constructor reads the three JSON files and
\* creates the demo user once more (storage.ts 82-97).
Restart ==
  /\ Answer(createUser([Store EXCEPT !.users = dbUsers, !.folders = dbFolders,
                                     !.files = dbFiles], "demo").st,
            "restart", 0)
  /\ issued' = [issued EXCEPT !.users = @ \cup {Len(dbUsers) + 1}]
  /\ UNCHANGED <<uploads, now, purged>>

(***************************************************************************)
(* SpecTree: one user builds, reparents and deletes folders, and uploads    *)
(* into them.                                                               *)
(***************************************************************************)
TreeFiles   == 1     \* files uploaded under SpecTree
TreeUploads == 2     \* uploads accepted under SpecTree

ReparentPatches == {[parentId |-> p] : p \in {Null} \cup FolderIds}

NextTree ==
  \/ /\ Len(folders) < MaxFolders
     /\ \E user \in Callers, parentId \in {Null} \cup FolderIds :
          PostFolder(user, parentId)
  \/ \E user \in Callers, id \in FolderIds, body \in ReparentPatches :
       PatchFolder(user, id, body)
  \/ \E user \in Callers, id \in FolderIds : DeleteFolder(user, id)
  \/ /\ Len(files) < TreeFiles
     /\ uploads < TreeUploads
     /\ \E user \in Callers, folderId \in {Null} \cup FolderIds :
          Upload(user, folderId, <<1>>)

SpecTree == Init /\ [][NextTree]_vars

(***************************************************************************)
(* The folder tree as the claims speak of it.                               *)
(***************************************************************************)
\* The ids of the folders under the folders whose ids are in ids (ids included).
RECURSIVE SubtreeIds(_, _)
SubtreeIds(fs, ids) ==
  LET more == ids \cup {fs[i].id : i \in {j \in 1..Len(fs) : fs[j].parentId \in ids}}
  IN IF more = ids THEN ids ELSE SubtreeIds(fs, more)

\* The ids met by following parentId upwards from the folder id p.
RECURSIVE AncestorIds(_, _)
AncestorIds(fs, ids) ==
  LET more == ids \cup {fs[i].parentId : i \in {j \in 1..Len(fs) : fs[j].id \in ids}}
  IN IF more = ids THEN ids ELSE AncestorIds(fs, more)

\* parentId resolves to a folder that exists and belongs to user.
Resolves(fs, parentId, user) ==
  \E i \in 1..Len(fs) : fs[i].id = parentId /\ fs[i].userId = user

(***************************************************************************)
(* SpecOwner: two users, and both generations of the routes that take a     *)
(* record's id.                                                             *)
(***************************************************************************)
OwnerUsers   == 2    \* user records under SpecOwner
OwnerFolders == 2    \* length of the folders array under SpecOwner
OwnerFiles   == 1    \* length of the files array under SpecOwner
OwnerUploads == 1    \* uploads accepted under SpecOwner

OwnerFolderIds == 1..OwnerFolders
OwnerFileIds   == 1..OwnerFiles

OwnerFolderPatches == {TrashPatch(now)}
OwnerFilePatches   == {[folderId |-> g] : g \in {Null} \cup OwnerFolderIds}

\* The requests of the first generation of routes (routes.ts 62-533).
NextOwnerChecked ==
  \/ /\ Len(users) < OwnerUsers
     /\ \E username \in Usernames : Register(username)
  \/ /\ Len(folders) < OwnerFolders
     /\ \E user \in Callers, parentId \in {Null} \cup OwnerFolderIds :
          PostFolder(user, parentId)
  \/ /\ Len(files) < OwnerFiles
     /\ uploads < OwnerUploads
     /\ \E user \in Callers, folderId \in {Null} \cup OwnerFolderIds :
          Upload(user, folderId, <<1>>)
  \/ \E user \in Callers, id \in OwnerFolderIds, body \in OwnerFolderPatches :
       PatchFolder(user, id, body)
  \/ \E user \in Callers, id \in OwnerFolderIds : DeleteFolder(user, id)
  \/ \E user \in Callers, id \in OwnerFileIds : GetFile(user, id)
  \/ \E user \in Callers, id \in OwnerFileIds : Download(user, id)
  \/ \E user \in Callers, id \in OwnerFileIds, body \in OwnerFilePatches :
       PatchFile(user, id, body)
  \/ \E user \in Callers, id \in OwnerFileIds : DeleteFile(user, id)

\* The requests of the second generation (routes.ts 594-842).
NextOwnerV2 ==
  \/ \E user \in Callers, id \in OwnerFolderIds, body \in OwnerFolderPatches :
       PatchFolderV2(user, id, body)
  \/ \E user \in Callers, id \in OwnerFolderIds : DeleteFolderV2(user, id)
  \/ \E user \in Callers, id \in OwnerFileIds : GetFileV2(user, id)
  \/ \E user \in Callers, id \in OwnerFileIds : DownloadV2(user, id)
  \/ \E user \in Callers, id \in OwnerFileIds, body \in OwnerFilePatches :
       PatchFileV2(user, id, body)
  \/ \E user \in Callers, id \in OwnerFileIds : DeleteFileV2(user, id)

NextOwner == NextOwnerChecked \/ NextOwnerV2

SpecOwner        == Init /\ [][NextOwner]_vars
SpecOwnerChecked == Init /\ [][NextOwnerChecked]_vars

(***************************************************************************)
(* C1.  Ownership isolation: an update, hard delete, get or download on     *)
(* the id of a folder or file of another user ends in not-found, and the    *)
(* record, its descendants and its stored bytes are as they were.           *)
(***************************************************************************)
\* Some record of arr with this id belongs to a user other than user.
OwnedByOther(arr, id, user) ==
  \E i \in 1..Len(arr) : arr[i].id = id /\ arr[i].userId # user

\* Not-found, and the folders under id, the files in them and their bytes kept.
FolderUntouched(id) ==
  LET sub == SubtreeIds(folders, {id})
      InSub(f)    == f.id \in sub
      PlacedIn(f) == f.folderId \in sub
      paths == {files[i].path : i \in {j \in 1..Len(files) : files[j].folderId \in sub}}
  IN /\ last'.status = 404
     /\ SelectSeq(folders', InSub) = SelectSeq(folders, InSub)
     /\ SelectSeq(files', PlacedIn) = SelectSeq(files, PlacedIn)
     /\ disk' \cap paths = disk \cap paths

\* Not-found, and the file records with this id and their bytes kept.
FileUntouched(id) ==
  LET Same(f) == f.id = id
      paths == {files[i].path : i \in {j \in 1..Len(files) : files[j].id = id}}
  IN /\ last'.status = 404
     /\ SelectSeq(files', Same) = SelectSeq(files, Same)
     /\ disk' \cap paths = disk \cap paths

C1_FolderStep ==
  \A user \in Callers, id \in OwnerFolderIds :
    (/\ OwnedByOther(folders, id, user)
     /\ \/ \E body \in OwnerFolderPatches :
             PatchFolder(user, id, body) \/ PatchFolderV2(user, id, body)
        \/ DeleteFolder(user, id)
        \/ DeleteFolderV2(user, id))
      => FolderUntouched(id)

C1_FileStep ==
  \A user \in Callers, id \in OwnerFileIds :
    (/\ OwnedByOther(files, id, user)
     /\ \/ \E body \in OwnerFilePatches :
             PatchFile(user, id, body) \/ PatchFileV2(user, id, body)
        \/ DeleteFile(user, id) \/ DeleteFileV2(user, id)
        \/ GetFile(user, id) \/ GetFileV2(user, id)
        \/ Download(user, id) \/ DownloadV2(user, id))
      => FileUntouched(id)

C1_OwnershipIsolation == [][C1_FolderStep /\ C1_FileStep]_vars

(***************************************************************************)
(* C7.  File placement: every file's folderId is null or the id of a        *)
(* folder that exists and has the file's owner.                             *)
(***************************************************************************)
C7_FilePlacement ==
  \A i \in 1..Len(files) :
    \/ files[i].folderId = Null
    \/ Resolves(folders, files[i].folderId, files[i].userId)

(***************************************************************************)
(* C2.  Recursive hard delete is complete: when deleteFolder(id) returns    *)
(* true (the route answers 204), no folder that had id as itself or as an   *)
(* ancestor and no file placed in such a folder is left, and every other    *)
(* folder and file is still there.                                          *)
(***************************************************************************)
C2_DeleteStep ==
  \A user \in Callers, id \in FolderIds :
    (DeleteFolder(user, id) /\ last'.status = 204) =>
      LET sub == SubtreeIds(folders, {id})
          KeepFolder(f) == f.id \notin sub
          KeepFile(f)   == f.folderId \notin sub
      IN /\ folders' = SelectSeq(folders, KeepFolder)
         /\ files' = SelectSeq(files, KeepFile)

C2_DeleteFolderComplete == [][C2_DeleteStep]_vars

(***************************************************************************)
(* C5.  The parent relation is acyclic in every reachable state: no folder  *)
(* is its own parent or ancestor.                                           *)
(***************************************************************************)
C5_Acyclic ==
  \A i \in 1..Len(folders) :
    folders[i].id \notin AncestorIds(folders, {folders[i].parentId})

(***************************************************************************)
(* C6.  Cycle prevention on reparenting: a patch { parentId: B } of folder  *)
(* A, where B is A or a descendant of A, fails and leaves every folder      *)
(* record as it was.                                                        *)
(***************************************************************************)
C6_ReparentStep ==
  \A user \in Callers, id \in FolderIds, p \in FolderIds :
    (/\ PatchFolder(user, id, [parentId |-> p])
     /\ Resolves(folders, id, user)
     /\ p \in SubtreeIds(folders, {id}))
      => (last'.status # 200 /\ folders' = folders)

C6_ReparentRejectsCycle == [][C6_ReparentStep]_vars

(***************************************************************************)
(* C8.  Per-user forest: a createFolder whose parentId does not resolve to  *)
(* a folder of the caller is rejected and creates nothing, so that every    *)
(* folder's parentId is null or the id of a folder of the same owner.       *)
(***************************************************************************)
C8_CreateStep ==
  \A user \in Callers, p \in FolderIds :
    (PostFolder(user, p) /\ ~Resolves(folders, p, user))
      => (last'.status = 404 /\ folders' = folders)

C8_Forest ==
  \A i \in 1..Len(folders) :
    \/ folders[i].parentId = Null
    \/ Resolves(folders, folders[i].parentId, folders[i].userId)

C8_PerUserForest == [][C8_CreateStep]_vars /\ []C8_Forest

(***************************************************************************)
(* C9.  Ids are never reused: the id a create returns differs from every    *)
(* id the same collection's create returned before, so no two live records  *)
(* of a collection share an id.                                             *)
(***************************************************************************)
UniqueIds(arr) ==
  \A i, j \in 1..Len(arr) : arr[i].id = arr[j].id => i = j

C9_CreateStep ==
  /\ \A user \in Callers, p \in {Null} \cup FolderIds :
       PostFolder(user, p) =>
         createFolder(Store, [parentId |-> p, userId |-> user]).ret.id
           \notin issued.folders
  /\ \A user \in Callers, g \in {Null} \cup FolderIds, sizes \in UploadBatches :
       Upload(user, g, sizes) =>
         {files'[i].id : i \in (Len(files) + 1)..Len(files')} \cap issued.files = {}
  /\ \A username \in Usernames :
       Register(username) => createUser(Store, username).ret.id \notin issued.users

C9_IdsNeverReused ==
  [][C9_CreateStep]_vars /\ [](UniqueIds(users) /\ UniqueIds(folders) /\ UniqueIds(files))

(***************************************************************************)
(* C10.  Write-through persistence: once a mutating call has returned, the  *)
(* persisted folders and files equal the arrays in memory.                  *)
(***************************************************************************)
C10_WriteThrough == dbFolders = folders /\ dbFiles = files

(***************************************************************************)
(* SpecTrash: one user nests folders, uploads into them, and sends the      *)
(* trash and restore patches of the client for folders and files while the  *)
(* clock advances.                                                          *)
(***************************************************************************)
TrashFolders == 2    \* length of the folders array under SpecTrash
TrashFiles   == 1    \* length of the files array under SpecTrash
TrashUploads == 1    \* uploads accepted under SpecTrash

TrashFolderIds == 1..TrashFolders
TrashFileIds   == 1..TrashFiles

LifecyclePatches == {TrashPatch(now), RestorePatch}

NextTrash ==
  \/ /\ now < MaxClock
     /\ Tick
  \/ /\ Len(folders) < TrashFolders
     /\ \E user \in Callers, parentId \in {Null} \cup TrashFolderIds :
          PostFolder(user, parentId)
  \/ /\ Len(files) < TrashFiles
     /\ uploads < TrashUploads
     /\ \E user \in Callers, folderId \in {Null} \cup TrashFolderIds :
          Upload(user, folderId, <<1>>)
  \/ \E user \in Callers, id \in TrashFolderIds, body \in LifecyclePatches :
       PatchFolder(user, id, body)
  \/ \E user \in Callers, id \in TrashFileIds, body \in LifecyclePatches :
       PatchFile(user, id, body)

SpecTrash == Init /\ [][NextTrash]_vars

\* The lifecycle state a record reports.
Trashed(f) == f.isDeleted = True
Active(f)  == f.isDeleted # True

\* The nesting of the records: which folder each folder and each file is in.
Nesting(fs, xs) ==
  <<[i \in 1..Len(fs) |-> <<fs[i].id, fs[i].parentId>>],
    [i \in 1..Len(xs) |-> <<xs[i].id, xs[i].folderId>>]>>

(***************************************************************************)
(* C3.  Cascading trash: when an Active folder F is moved to trash, then    *)
(* after the operation F, every descendant folder of F and every file in    *)
(* F's subtree report isDeleted = true with one and the same deletedAt,     *)
(* and the nesting of the subtree is unchanged.                             *)
(***************************************************************************)
C3_TrashStep ==
  \A user \in Callers, id \in FolderIds :
    (/\ PatchFolder(user, id, TrashPatch(now))
     /\ last'.status = 200
     /\ LET found == getFolderById(Store, id)
        IN found # 0 /\ Active(folders[found]))
      => LET sub == SubtreeIds(folders, {id})
         IN /\ \A i \in 1..Len(folders') :
                 folders'[i].id \in sub =>
                   Trashed(folders'[i]) /\ folders'[i].deletedAt = now
            /\ \A i \in 1..Len(files') :
                 files'[i].folderId \in sub =>
                   Trashed(files'[i]) /\ files'[i].deletedAt = now
            /\ Nesting(folders', files') = Nesting(folders, files)

C3_CascadingTrash == [][C3_TrashStep]_vars

(***************************************************************************)
(* C4.  Cascading restore: when a Trashed folder F is restored, then after  *)
(* the operation F, every descendant folder of F and every file in F's      *)
(* subtree report isDeleted = false and deletedAt = null.  A record that    *)
(* was never given the two fields counts as reporting them so.              *)
(***************************************************************************)
Restored(f) == Active(f) /\ f.deletedAt \in {Null, UndefinedAt}

C4_RestoreStep ==
  \A user \in Callers, id \in FolderIds :
    (/\ PatchFolder(user, id, RestorePatch)
     /\ last'.status = 200
     /\ LET found == getFolderById(Store, id)
        IN found # 0 /\ Trashed(folders[found]))
      => LET sub == SubtreeIds(folders, {id})
         IN /\ \A i \in 1..Len(folders') :
                 folders'[i].id \in sub => Restored(folders'[i])
            /\ \A i \in 1..Len(files') :
                 files'[i].folderId \in sub => Restored(files'[i])

C4_CascadingRestore == [][C4_RestoreStep]_vars

(***************************************************************************)
(* SpecFiles: two users upload files to the root, trash, restore and patch  *)
(* them, read them and delete them for good while the clock advances.       *)
(***************************************************************************)
FilesUsers   == 2    \* user records under SpecFiles
FilesRecords == 2    \* length of the files array under SpecFiles
FilesUploads == 3    \* uploads accepted under SpecFiles

FilesFileIds == 1..FilesRecords

\* Trash, restore, and a patch that carries an updatedAt of its own.
FilesPatches == {TrashPatch(now), RestorePatch, [updatedAt |-> 0]}

NextFiles ==
  \/ /\ now < MaxClock
     /\ Tick
  \/ /\ Len(users) < FilesUsers
     /\ \E username \in Usernames : Register(username)
  \/ \E user \in Callers, sizes \in UploadBatches :
       /\ Len(files) + Len(sizes) <= FilesRecords
       /\ uploads + Len(sizes) <= FilesUploads
       /\ Upload(user, Null, sizes)
  \/ \E user \in Callers, id \in FilesFileIds, body \in FilesPatches :
       PatchFile(user, id, body)
  \/ \E user \in Callers, id \in FilesFileIds : DeleteFile(user, id)
  \/ \E user \in Callers, id \in FilesFileIds : GetFile(user, id)

SpecFiles == Init /\ [][NextFiles]_vars

(***************************************************************************)
(* C11.  Purge removes record and bytes: once a hard delete has removed     *)
(* file f, getFile(f.id) is not-found and no bytes are held under f's       *)
(* path, in that state and in every later state.                            *)
(***************************************************************************)
C11_PurgeRemoves ==
  \A f \in purged : getFileById(Store, f.id) = 0 /\ f.path \notin disk

(***************************************************************************)
(* C12.  Idempotent delete: in every reachable state the second of two      *)
(* deleteFile(id) calls in a row returns false, changes no record and       *)
(* releases no bytes; so does deleteFile on an id that never existed.       *)
(***************************************************************************)
C12_IdempotentDelete ==
  \A id \in FilesFileIds \cup {FilesRecords + 1} :
    LET first  == deleteFile(Store, id)
        second == deleteFile(first.st, id)
    IN /\ ~second.ret
       /\ second.st = first.st
       /\ id \notin issued.files => (~first.ret /\ first.st = Store)

(***************************************************************************)
(* Storage stats.                                                           *)
(***************************************************************************)
\* reduce((sum, file) => sum + file.size, 0).
RECURSIVE SumSizes(_)
SumSizes(arr) == IF arr = <<>> THEN 0 ELSE Head(arr).size + SumSizes(Tail(arr))

getStorageStatsActiveOnly(s, userId) ==
  LET Mine(f) == f.userId = userId /\ f.isDeleted # True
  IN [usedSpace |-> SumSizes(SelectSeq(s.files, Mine))]

\* getStorageStats: the sizes of the records with that userId, added up.
getStorageStats(s, userId) ==
  LET Mine(f) == f.userId = userId
  IN [usedSpace |-> SumSizes(SelectSeq(s.files, Mine))]

\* The sizes of the records of arr at the indices in idx, added up.
RECURSIVE SizeOver(_, _)
SizeOver(arr, idx) ==
  IF idx = {} THEN 0
  ELSE LET i == CHOOSE j \in idx : TRUE
       IN arr[i].size + SizeOver(arr, idx \ {i})

(***************************************************************************)
(* SpecStats: two users upload files to the root or into a folder, trash    *)
(* and restore them, and delete them for good one by one or with their      *)
(* folder.                                                                  *)
(***************************************************************************)
StatsUsers   == 2    \* user records under SpecStats
StatsFolders == 1    \* length of the folders array under SpecStats
StatsRecords == 2    \* length of the files array under SpecStats
StatsUploads == 3    \* uploads accepted under SpecStats

StatsFolderIds == 1..StatsFolders
StatsFileIds   == 1..StatsRecords

NextStats ==
  \/ /\ Len(users) < StatsUsers
     /\ \E username \in Usernames : Register(username)
  \/ /\ Len(folders) < StatsFolders
     /\ \E user \in Callers : PostFolder(user, Null)
  \/ \E user \in Callers, folderId \in {Null} \cup StatsFolderIds,
        sizes \in UploadBatches :
       /\ Len(files) + Len(sizes) <= StatsRecords
       /\ uploads + Len(sizes) <= StatsUploads
       /\ Upload(user, folderId, sizes)
  \/ \E user \in Callers, id \in StatsFileIds, body \in LifecyclePatches :
       PatchFile(user, id, body)
  \/ \E user \in Callers, id \in StatsFileIds : DeleteFile(user, id)
  \/ \E user \in Callers, id \in StatsFolderIds : DeleteFolder(user, id)

SpecStats == Init /\ [][NextStats]_vars

(***************************************************************************)
(* C13.  Storage usage: getStorageStats(U).usedSpace is the sum of size     *)
(* over exactly the file records of U that no hard delete (of the file or   *)
(* of its folder) has removed: trashed files count, other users' files and  *)
(* purged files do not.                                                     *)
(***************************************************************************)
PurgedPaths == {f.path : f \in purged}

DefaultLimit == 8    \* getRecentFiles(userId, limit = 8)

\* Array.prototype.sort with (a, b) => b.updatedAt - a.updatedAt: a stable
\* sort, so records with equal updatedAt keep the order they had in the array.
InsertByUpdatedAt(sorted, f) ==
  LET later == {i \in 1..Len(sorted) : sorted[i].updatedAt < f.updatedAt}
      at    == IF later = {} THEN Len(sorted) + 1
               ELSE CHOOSE i \in later : \A j \in later : i <= j
  IN SubSeq(sorted, 1, at - 1) \o <<f>> \o SubSeq(sorted, at, Len(sorted))

RECURSIVE SortByUpdatedAt(_)
SortByUpdatedAt(arr) ==
  IF arr = <<>> THEN <<>>
  ELSE InsertByUpdatedAt(SortByUpdatedAt(SubSeq(arr, 1, Len(arr) - 1)), arr[Len(arr)])

\* Array.prototype.slice(0, limit) for a limit that is not negative.
Slice(arr, limit) == SubSeq(arr, 1, IF limit < Len(arr) THEN limit ELSE Len(arr))

\* getRecentFiles: filter by userId, sort by updatedAt descending, slice.
getRecentFiles(s, userId, limit) ==
  LET Mine(f) == f.userId = userId
  IN Slice(SortByUpdatedAt(SelectSeq(s.files, Mine)), limit)

(***************************************************************************)
(* C14.  Recent files ordering: listRecentFiles(owner, limit) returns at    *)
(* most limit files (default 8), all of the owner, sorted by updatedAt      *)
(* descending with ties broken by id descending, and they are the first     *)
(* limit files of that order over the owner's files.                        *)
(***************************************************************************)
\* a comes no later than b in the order of the claim.
NoLater(a, b) ==
  a.updatedAt > b.updatedAt \/ (a.updatedAt = b.updatedAt /\ a.id >= b.id)

Limits == 1..FilesRecords

C14_RecentFiles ==
  \A owner \in Callers, limit \in Limits \cup {DefaultLimit} :
    LET recent == getRecentFiles(Store, owner, limit)
        mine   == {i \in 1..Len(files) : files[i].userId = owner}
    IN /\ Len(recent) = (IF limit < Cardinality(mine) THEN limit ELSE Cardinality(mine))
       /\ \A i \in 1..Len(recent) : recent[i].userId = owner
       /\ \A i, j \in 1..Len(recent) : i < j => NoLater(recent[i], recent[j])
       /\ \A k \in mine :
            \/ \E i \in 1..Len(recent) : recent[i] = files[k]
            \/ \A i \in 1..Len(recent) : NoLater(recent[i], files[k])

(***************************************************************************)
(* Listings.                                                                *)
(***************************************************************************)
\* getSharedFiles: the records with that userId whose isShared is truthy.
getSharedFiles(s, userId) ==
  LET Keep(f) == f.userId = userId /\ f.isShared = True
  IN SelectSeq(s.files, Keep)

\* getFoldersInTrash, as the specification describes listTrashedFolders.
getFoldersInTrash(s, userId) ==
  LET Keep(f) == f.userId = userId /\ f.isDeleted = True
  IN SelectSeq(s.folders, Keep)

\* getFilesInTrash, as the specification describes listTrashedFiles.
getFilesInTrash(s, userId) ==
  LET Keep(f) == f.userId = userId /\ f.isDeleted = True
  IN SelectSeq(s.files, Keep)

\* The elements of a sequence.
Range(arr) == {arr[i] : i \in 1..Len(arr)}

(***************************************************************************)
(* C15.  Listings split by trash state: the folder, file, recent and shared *)
(* listings return only records that are not trashed and match the owner    *)
(* (and parent or folder); the trash listings return only the user's        *)
(* trashed records; no record is in both a normal and a trash listing.      *)
(***************************************************************************)
ListedFolders(owner) ==
  UNION {Range(getFoldersByParentId(Store, p, owner)) : p \in {Null} \cup FolderIds}

ListedFiles(owner) ==
  UNION {Range(getFilesByFolderId(Store, g, owner)) : g \in {Null} \cup FolderIds}
    \cup Range(getRecentFiles(Store, owner, DefaultLimit))
    \cup Range(getSharedFiles(Store, owner))

C15_ListingsSplit ==
  \A owner \in Callers :
    /\ \A f \in ListedFolders(owner) \cup ListedFiles(owner) :
         f.userId = owner /\ f.isDeleted # True
    /\ \A p \in {Null} \cup FolderIds :
         \A f \in Range(getFoldersByParentId(Store, p, owner)) : f.parentId = p
    /\ \A g \in {Null} \cup FolderIds :
         \A f \in Range(getFilesByFolderId(Store, g, owner)) : f.folderId = g
    /\ \A f \in Range(getSharedFiles(Store, owner)) : f.isShared = True
    /\ \A f \in Range(getFoldersInTrash(Store, owner)) \cup
                Range(getFilesInTrash(Store, owner)) :
         f.userId = owner /\ f.isDeleted = True
    /\ ListedFolders(owner) \cap Range(getFoldersInTrash(Store, owner)) = {}
    /\ ListedFiles(owner) \cap Range(getFilesInTrash(Store, owner)) = {}

(***************************************************************************)
(* Emptying the trash.  storage.emptyTrash is called by the two routes      *)
(* below; the store operation is modelled as the specification describes    *)
(* it, on top of deleteFolder and deleteFile: every trashed folder of the   *)
(* user is purged, then every trashed file of the user.                     *)
(***************************************************************************)
RECURSIVE PurgeFolders(_, _)
PurgeFolders(r, ids) ==
  IF r.threw \/ ids = <<>> THEN r
  ELSE LET d == deleteFolder(r.st, Head(ids))
       IN PurgeFolders([st |-> d.st, threw |-> d.threw], Tail(ids))

RECURSIVE PurgeFiles(_, _)
PurgeFiles(s, ids) ==
  IF ids = <<>> THEN s ELSE PurgeFiles(deleteFile(s, Head(ids)).st, Tail(ids))

emptyTrash(s, userId) ==
  LET trashedFolders == getFoldersInTrash(s, userId)
      r == PurgeFolders([st |-> s, threw |-> FALSE],
                        [i \in 1..Len(trashedFolders) |-> trashedFolders[i].id])
      trashedFiles == getFilesInTrash(r.st, userId)
  IN IF r.threw THEN r
     ELSE [st    |-> PurgeFiles(r.st, [i \in 1..Len(trashedFiles) |-> trashedFiles[i].id]),
           threw |-> FALSE]

\* DELETE /api/trash (routes.ts 483-493) answers 200, POST /api/trash/empty
\* (routes.ts 520-530) answers 204; both answer 500 when emptyTrash throws.
TrashRoutes == {[op |-> "deleteTrash", status |-> 200],
                [op |-> "postTrashEmpty", status |-> 204]}

EmptyTrash(user, route) ==
  LET r == emptyTrash(Store, user)
  IN /\ Answer(r.st, route.op, IF r.threw THEN 500 ELSE route.status)
     /\ purged' = purged \cup Gone(files, files')
     /\ UNCHANGED <<uploads, now, issued>>

(***************************************************************************)
(* SpecEmpty: one user nests folders, uploads into them, trashes folders    *)
(* and files and empties the trash.                                         *)
(***************************************************************************)
EmptyFolders == 3    \* length of the folders array under SpecEmpty
EmptyFiles   == 1    \* length of the files array under SpecEmpty
EmptyUploads == 1    \* uploads accepted under SpecEmpty

EmptyFolderIds == 1..EmptyFolders
EmptyFileIds   == 1..EmptyFiles

NextEmpty ==
  \/ /\ Len(folders) < EmptyFolders
     /\ \E user \in Callers, parentId \in {Null} \cup EmptyFolderIds :
          PostFolder(user, parentId)
  \/ /\ Len(files) < EmptyFiles
     /\ uploads < EmptyUploads
     /\ \E user \in Callers, folderId \in {Null} \cup EmptyFolderIds :
          Upload(user, folderId, <<1>>)
  \/ \E user \in Callers, id \in EmptyFolderIds : PatchFolder(user, id, TrashPatch(now))
  \/ \E user \in Callers, id \in EmptyFileIds : PatchFile(user, id, TrashPatch(now))
  \/ \E user \in Callers, route \in TrashRoutes : EmptyTrash(user, route)

SpecEmpty == Init /\ [][NextEmpty]_vars

(***************************************************************************)
(* C16.  emptyTrash(U) purges exactly U's trash: after it completes no      *)
(* folder or file of U is trashed, every record in the subtree of a trashed *)
(* folder of U is gone with its bytes released, and every record of another *)
(* user and every Active record of U outside those subtrees is unchanged.   *)
(***************************************************************************)
C16_EmptyStep ==
  \A user \in Callers, route \in TrashRoutes :
    (EmptyTrash(user, route) /\ last'.status = route.status) =>
      LET roots == {folders[i].id : i \in {j \in 1..Len(folders) :
                       folders[j].userId = user /\ Trashed(folders[j])}}
          sub   == SubtreeIds(folders, roots)
          KeptFolder(f) == f.id \notin sub /\ (f.userId # user \/ Active(f))
          KeptFile(f)   == f.folderId \notin sub /\ (f.userId # user \/ Active(f))
      IN /\ \A i \in 1..Len(folders') :
              folders'[i].userId = user => Active(folders'[i])
         /\ \A i \in 1..Len(files') :
              files'[i].userId = user => Active(files'[i])
         /\ \A i \in 1..Len(folders') : folders'[i].id \notin sub
         /\ \A i \in 1..Len(files') : files'[i].folderId \notin sub
         /\ \A i \in 1..Len(files) : files[i].folderId \in sub => files[i].path \notin disk'
         /\ SelectSeq(folders', KeptFolder) = SelectSeq(folders, KeptFolder)
         /\ SelectSeq(files', KeptFile) = SelectSeq(files, KeptFile)

C16_EmptyTrashExact == [][C16_EmptyStep]_vars

(***************************************************************************)
(* SpecPatch: one user, one folder and one file, and both generations of    *)
(* the PATCH routes with bodies that carry a single field, an id or a       *)
(* userId.                                                                  *)
(***************************************************************************)
PatchFolders == 1    \* length of the folders array under SpecPatch
PatchFiles   == 1    \* length of the files array under SpecPatch
PatchUploads == 1    \* uploads accepted under SpecPatch
PatchIds     == 2    \* ids and user ids a body may carry under SpecPatch

PatchBodies ==
  {TrashPatch(now), RestorePatch, [isDeleted |-> True], [deletedAt |-> now]}
    \cup {[userId |-> u] : u \in 1..PatchIds}
    \cup {[id |-> i] : i \in 1..PatchIds}

NextPatch ==
  \/ /\ Len(folders) < PatchFolders
     /\ \E user \in Callers : PostFolder(user, Null)
  \/ /\ Len(files) < PatchFiles
     /\ uploads < PatchUploads
     /\ \E user \in Callers : Upload(user, Null, <<1>>)
  \/ \E user \in Callers, id \in 1..PatchIds, body \in PatchBodies :
       PatchFolder(user, id, body)
  \/ \E user \in Callers, id \in 1..PatchIds, body \in PatchBodies :
       PatchFolderV2(user, id, body)
  \/ \E user \in Callers, id \in 1..PatchIds, body \in PatchBodies :
       PatchFile(user, id, body)
  \/ \E user \in Callers, id \in 1..PatchIds, body \in PatchBodies :
       PatchFileV2(user, id, body)

SpecPatch == Init /\ [][NextPatch]_vars

(***************************************************************************)
(* C17.  Trash-state coupling: for every folder and file, isDeleted is a    *)
(* boolean and deletedAt is non-null exactly when isDeleted is true.  A     *)
(* record that was never given the fields counts as isDeleted = false,      *)
(* deletedAt = null.                                                        *)
(***************************************************************************)
Coupled(f) ==
  /\ f.isDeleted \in {True, False, Undefined}
  /\ f.deletedAt \notin {Null, UndefinedAt} <=> f.isDeleted = True

C17_TrashCoupling ==
  /\ \A i \in 1..Len(folders) : Coupled(folders[i])
  /\ \A i \in 1..Len(files) : Coupled(files[i])

(***************************************************************************)
(* C19.  No ownership or identity transfer by update: after a successful    *)
(* update of a folder or file, whatever the patch carries, the record       *)
(* stored under the requested id has the id and the owner it had before,    *)
(* and the collection has as many records as before.                        *)
(***************************************************************************)
SameIdentity(before, after, id) ==
  LET k == FindIndex(before, id)
  IN /\ Len(after) = Len(before)
     /\ k # 0
     /\ after[k].id = id
     /\ after[k].userId = before[k].userId

C19_PatchStep ==
  \A user \in Callers, id \in 1..PatchIds, body \in PatchBodies :
    /\ ((PatchFolder(user, id, body) \/ PatchFolderV2(user, id, body))
          /\ last'.status = 200) => SameIdentity(folders, folders', id)
    /\ ((PatchFile(user, id, body) \/ PatchFileV2(user, id, body))
          /\ last'.status = 200) => SameIdentity(files, files', id)

C19_NoTransfer == [][C19_PatchStep]_vars

(***************************************************************************)
(* C18.  updatedAt tracks mutations only: a successful updateFile sets the  *)
(* file's updatedAt to the time of the call whatever updatedAt the patch    *)
(* carries, so with a clock that does not go back a file's updatedAt never  *)
(* decreases; and a read leaves every record as it was.                     *)
(***************************************************************************)
C18_UpdateStep ==
  \A user \in Callers, id \in FilesFileIds, body \in FilesPatches :
    (PatchFile(user, id, body) /\ last'.status = 200) =>
      files'[getFileById(Store, id)].updatedAt = now

C18_NeverBack ==
  \A i \in 1..Len(files), j \in 1..Len(files') :
    files'[j].path = files[i].path => files'[j].updatedAt >= files[i].updatedAt

C18_ReadStep ==
  \A user \in Callers, id \in FilesFileIds :
    GetFile(user, id) =>
      /\ files' = files /\ folders' = folders /\ users' = users
      /\ dbFiles' = dbFiles /\ dbFolders' = dbFolders /\ disk' = disk

C18_UpdatedAt == [][C18_UpdateStep /\ C18_NeverBack /\ C18_ReadStep]_vars

\* A PATCH has just succeeded after the clock advanced, and a file that was
\* created at the first clock value carries the time of the call.
C18_Witness ==
  /\ last = [op |-> "patchFile", status |-> 200]
  /\ now = MaxClock
  /\ \E i \in 1..Len(files) : files[i].updatedAt = now /\ files[i].path = 1
  /\ uploads = 1

(***************************************************************************)
(* SpecRestart: users register, a user creates a folder, uploads into it    *)
(* and deletes it, and the process is started again over the data files.    *)
(***************************************************************************)
RestartUsers   == 3    \* user records under SpecRestart
RestartFolders == 1    \* length of the folders array under SpecRestart
RestartFiles   == 1    \* length of the files array under SpecRestart
RestartUploads == 1    \* uploads accepted under SpecRestart

NextRestart ==
  \/ /\ Len(users) < RestartUsers
     /\ \E username \in Usernames : Register(username)
  \/ /\ Len(users) < RestartUsers
     /\ Restart
  \/ /\ Len(folders) < RestartFolders
     /\ \E user \in Callers : PostFolder(user, Null)
  \/ /\ Len(files) < RestartFiles
     /\ uploads < RestartUploads
     /\ \E user \in Callers, folderId \in {Null} \cup 1..RestartFolders :
          Upload(user, folderId, <<1>>)
  \/ \E user \in Callers, id \in 1..RestartFolders : DeleteFolder(user, id)

SpecRestart == Init /\ [][NextRestart]_vars

(***************************************************************************)
(* C20.  User identity uniqueness: in every reachable state, also after     *)
(* the store was constructed again over the persisted data, no two user     *)
(* records share an id and no two share a username.                         *)
(***************************************************************************)
C20_UserUniqueness ==
  /\ UniqueIds(users)
  /\ \A i, j \in 1..Len(users) : users[i].username = users[j].username => i = j

(***************************************************************************)
(* SpecValidate: folders are posted with the request body in full, and the  *)
(* store's createFile is called with the inserts a caller of the exported   *)
(* store can pass.                                                          *)
(***************************************************************************)
ValidFolders == 3    \* length of the folders array under SpecValidate
ValidFiles   == 3    \* length of the files array under SpecValidate
ValidUploads == 3    \* paths handed to createFile under SpecValidate

Names       == {"", "q1"}
FileSizes   == {-1, 0, 1}

\* insertFolderSchema (createInsertSchema(folders), schema.ts): name is a
\* text column that is not null, so the parse asks for a string and takes
\* any string, the empty one too; the other picked columns are optional.
insertFolderSchema(data) ==
  [success |-> "name" \in DOMAIN data /\ data.name \in STRING,
   data    |-> data]

\* The bodies a client can post to /api/folders.
FolderBodies ==
  {[name |-> n, parentId |-> Null] : n \in Names} \cup {[parentId |-> Null]}

\* POST /api/folders with its body (routes.ts 98-119): safeParse of the body
\* with the session's userId, 400 when the parse fails, else createFolder.
PostFolderBody(user, body) ==
  LET validation == insertFolderSchema(Merge(body, [userId |-> user]))
      r          == createFolder(Store, validation.data)
  IN /\ IF ~validation.success
        THEN Answer(Store, "postFolder", 400)
        ELSE Answer(r.st, "postFolder", 201)
     /\ issued' = [issued EXCEPT !.folders =
                     IF validation.success THEN @ \cup {r.ret.id} ELSE @]
     /\ UNCHANGED <<uploads, now, purged>>

\* The inserts of a call of storage.createFile.
FileInserts ==
  {[name |-> n, size |-> z, path |-> uploads + 1, userId |-> u, folderId |-> Null] :
     n \in Names, z \in FileSizes, u \in Callers}

\* A call of storage.createFile (storage.ts 188-214) on bytes stored at a new
\* path.  The call returns the record; it has no path on which it throws.
CreateFile(insertFile) ==
  /\ Answer(createFile([Store EXCEPT !.disk = disk \cup {insertFile.path}],
                       insertFile, now).st, "createFile", 201)
  /\ uploads' = uploads + 1
  /\ issued' = [issued EXCEPT !.files = @ \cup {Len(files) + 1}]
  /\ UNCHANGED <<now, purged>>

NextValidate ==
  \/ /\ Len(folders) < ValidFolders
     /\ \E user \in Callers, body \in FolderBodies : PostFolderBody(user, body)
  \/ /\ Len(files) < ValidFiles
     /\ uploads < ValidUploads
     /\ \E insertFile \in FileInserts : CreateFile(insertFile)
  \/ \E user \in Callers, id \in 1..ValidFiles : DeleteFile(user, id)

SpecValidate == Init /\ [][NextValidate]_vars

(***************************************************************************)
(* C22.  Input validation: createFolder with an empty name, and createFile  *)
(* with an empty name or a negative size, fail, and the folders and files   *)
(* collections (hence the next id of each, length + 1) are after the call   *)
(* what they were before it.                                                *)
(***************************************************************************)
C22_FolderStep ==
  \A user \in Callers, body \in FolderBodies :
    ("name" \in DOMAIN body /\ body.name = "" /\ PostFolderBody(user, body))
      => /\ last'.status = 400
         /\ folders' = folders /\ files' = files

C22_FileStep ==
  \A insertFile \in FileInserts :
    ((insertFile.name = "" \/ insertFile.size < 0) /\ CreateFile(insertFile))
      => /\ last'.status # 201
         /\ folders' = folders /\ files' = files

C22_InputValidation == [][C22_FolderStep /\ C22_FileStep]_vars

(***************************************************************************)
(* C27.  Termination of hard delete: in every state reached through        *)
(* createFolder, updateFolder (reparenting included) and deleteFolder, a    *)
(* call deleteFolder(id) returns, after a number of nested calls bounded by *)
(* the number of folders.  (A nesting deeper than StackDepth, which is more *)
(* than twice the folders there can be, repeats a folder id under a parent  *)
(* chain that no call has yet removed: the recursion goes on until the      *)
(* stack is exhausted.)                                                     *)
(***************************************************************************)
C27_DeleteTerminates ==
  \A id \in FolderIds : ~deleteFolder(Store, id).threw

(***************************************************************************)
(* C28.  Failed folder delete is a no-op: when deleteFolder(id) returns     *)
(* false because no folder has that id, the folders, the files and the      *)
(* stored bytes are after the call what they were before it, also when a    *)
(* file's folderId or a folder's parentId equals id.                        *)
(***************************************************************************)
C28_FailedStep ==
  \A user \in Callers, id \in OwnerFolderIds :
    (/\ getFolderById(Store, id) = 0
     /\ DeleteFolder(user, id) \/ DeleteFolderV2(user, id))
      => /\ last'.status = 404
         /\ folders' = folders /\ files' = files /\ disk' = disk

C28_FailedDeleteNoOp == [][C28_FailedStep]_vars

(***************************************************************************)
(* SpecPaths: a user uploads files, into a folder or not, patches their     *)
(* metadata (the storage path is a field like any other to the update      *)
(* route) and hard-deletes files and folders.                               *)
(***************************************************************************)
PathsFolders == 1    \* length of the folders array under SpecPaths
PathsFiles   == 2    \* length of the files array under SpecPaths
PathsUploads == 3    \* uploads accepted under SpecPaths

PathsFolderIds == 1..PathsFolders
PathsFileIds   == 1..PathsFiles

\* The bodies of PATCH /api/files/:id under SpecPaths.
PathsPatches ==
  {[path |-> p] : p \in 1..PathsUploads}
    \cup {[folderId |-> g] : g \in {Null} \cup PathsFolderIds}
    \cup {TrashPatch(now)}

NextPaths ==
  \/ /\ Len(folders) < PathsFolders
     /\ \E user \in Callers : PostFolder(user, Null)
  \/ /\ Len(files) < PathsFiles
     /\ uploads < PathsUploads
     /\ \E user \in Callers, folderId \in {Null} \cup PathsFolderIds :
          Upload(user, folderId, <<1>>)
  \/ \E user \in Callers, id \in PathsFileIds, body \in PathsPatches :
       PatchFile(user, id, body)
  \/ \E user \in Callers, id \in PathsFileIds : DeleteFile(user, id)
  \/ \E user \in Callers, id \in PathsFolderIds : DeleteFolder(user, id)

SpecPaths == Init /\ [][NextPaths]_vars

(***************************************************************************)
(* C29.  Hard deletes release only their own bytes: a deleteFile or a       *)
(* deleteFolder call takes from the uploads directory only bytes under the  *)
(* paths of records that this call removed; the bytes of every file record  *)
(* that remains after the call are still there.                             *)
(***************************************************************************)
\* The paths of the records of arr.
PathsOf(arr) == {arr[i].path : i \in 1..Len(arr)}

C29_DeleteStep ==
  \A user \in Callers :
    ((\E id \in PathsFileIds : DeleteFile(user, id))
       \/ (\E id \in PathsFolderIds : DeleteFolder(user, id)))
      => /\ (disk \ disk') \cap PathsOf(files') = {}
         /\ (disk \ disk') \subseteq PathsOf(files)

C29_ReleaseOwnBytes == [][C29_DeleteStep]_vars

(***************************************************************************)
(* POST /api/upload with a createFile that can fail.  JsonStorage.createFile *)
(* has one statement that throws: saveFiles, when fs.writeFileSync cannot   *)
(* write data/files.json (storage.ts 39-41, 211).  The record was pushed on *)
(* the line before.                                                         *)
(***************************************************************************)
\* createFile where the write of data/files.json fails iff fails.
createFileWrite(s, insertFile, t, fails) ==
  LET r == createFile(s, insertFile, t)
  IN IF fails
     THEN [st |-> [r.st EXCEPT !.dbFiles = s.dbFiles], ret |-> r.ret, threw |-> TRUE]
     ELSE [st |-> r.st, ret |-> r.ret, threw |-> FALSE]

\* The loop of the handler (routes.ts 243-281) from the k-th uploaded file on:
\* try createFile and count it as saved; catch, count the error and unlink
\* the bytes multer stored; go on with the next file.
RECURSIVE SaveOrClean(_, _, _, _, _, _, _)
SaveOrClean(acc, user, folderId, sizes, k, t, failing) ==
  IF k > Len(sizes)
  THEN acc
  ELSE LET path == acc.first + k
           r    == createFileWrite(acc.st, [size |-> sizes[k], path |-> path,
                                            userId |-> user, folderId |-> folderId],
                                   t, k \in failing)
       IN SaveOrClean(
            IF r.threw
            THEN [acc EXCEPT !.st = [r.st EXCEPT !.disk = Unlink(r.st.disk, path)],
                             !.errors = @ + 1]
            ELSE [acc EXCEPT !.st = r.st, !.savedFiles = @ + 1],
            user, folderId, sizes, k + 1, t, failing)

\* POST /api/upload, first generation (routes.ts 230-305): multer has stored
\* the bytes; 400 when nothing was saved, 207 when some failed, else 201.
PostUpload(user, folderId, sizes, failing) ==
  LET r == SaveOrClean([st |-> [Store EXCEPT !.disk = disk \cup
                                   (uploads + 1)..(uploads + Len(sizes))],
                        first |-> uploads, savedFiles |-> 0, errors |-> 0],
                       user, folderId, sizes, 1, now, failing)
  IN /\ Answer(r.st, "postUpload",
               IF r.savedFiles = 0 THEN 400
               ELSE IF r.errors > 0 THEN 207 ELSE 201)
     /\ uploads' = uploads + Len(sizes)
     /\ issued' = [issued EXCEPT !.files = @ \cup
                     (Len(files) + 1)..(Len(files) + Len(sizes))]
     /\ UNCHANGED <<now, purged>>

(***************************************************************************)
(* SpecUpload: users upload one or two files at a time, the write of the    *)
(* files' JSON fails for any of them, and files are deleted.                *)
(***************************************************************************)
UploadUsers   == 2   \* user records under SpecUpload
UploadFiles   == 3   \* length of the files array under SpecUpload
UploadUploads == 4   \* uploads accepted under SpecUpload

NextUpload ==
  \/ /\ Len(users) < UploadUsers
     /\ \E username \in Usernames : Register(username)
  \/ \E user \in Callers, sizes \in UploadBatches :
       /\ Len(files) + Len(sizes) <= UploadFiles
       /\ uploads + Len(sizes) <= UploadUploads
       /\ \E failing \in SUBSET (1..Len(sizes)) :
            PostUpload(user, Null, sizes, failing)
  \/ \E user \in Callers, id \in 1..UploadFiles : DeleteFile(user, id)

SpecUpload == Init /\ [][NextUpload]_vars

(***************************************************************************)
(* C30.  Multi-file upload leaves no half-saved file: when the handler      *)
(* finishes, for each uploaded file exactly one holds: a record of the      *)
(* caller with that file's path was created, or createFile failed for it    *)
(* and its bytes were removed; the files after a failed one are processed;  *)
(* the response is 201 iff all were saved, 207 iff some but not all, 400    *)
(* iff none.                                                                *)
(***************************************************************************)
\* A record of user with this path is in arr.
Recorded(arr, path, user) ==
  \E i \in 1..Len(arr) : arr[i].path = path /\ arr[i].userId = user

C30_UploadStep ==
  \A user \in Callers, sizes \in UploadBatches, failing \in SUBSET (1..2) :
    (failing \subseteq 1..Len(sizes) /\ PostUpload(user, Null, sizes, failing))
      => /\ \A k \in 1..Len(sizes) :
              LET path == uploads + k
              IN Recorded(files', path, user) # (k \in failing /\ path \notin disk')
         /\ (last'.status = 201) = (failing = {})
         /\ (last'.status = 207) = (failing # {} /\ failing # 1..Len(sizes))
         /\ (last'.status = 400) = (failing = 1..Len(sizes))

C30_NoHalfSavedFile == [][C30_UploadStep]_vars

(***************************************************************************)
(* The handlers step by step.  A request waits in pending until the event   *)
(* loop calls its handler.  A handler runs up to its next await, where it   *)
(* leaves the thread; what follows the await is a promise job.  The store's *)
(* methods are async functions whose bodies have no await of their own      *)
(* (deleteFolder: none but the await of its own nested call), so a method's *)
(* body runs when it is called, and the promise it returns settles without  *)
(* a timer or an I/O callback: by promise jobs alone.  Inside a synchronous *)
(* stretch the steps are the statements of the method, so that the states   *)
(* between them can be looked at; cpu names the handler that is inside such *)
(* a stretch.                                                               *)
(***************************************************************************)
\* await storage.getFolderById(id) / getFileById(id): the record found, if any.
Lookup(op, id) ==
  LET arr == IF op \in {"patchFolder", "deleteFolder"} THEN folders ELSE files
      i   == FindIndex(arr, id)
  IN IF i = 0 THEN <<>> ELSE <<arr[i]>>

\* A handler that has been called and waits at its first await.
Handler(request) ==
  [op       |-> request.op,
   user     |-> request.user,
   id       |-> request.id,
   pc       |-> "checked",
   found    |-> Lookup(request.op, request.id),
   start    |-> Store,
   stack    |-> <<>>,
   victim   |-> <<>>,
   released |-> {},
   status   |-> 0]

\* A call of deleteFolder(id): the for-of of the file loop walks the array
\* that this.files is when the loop starts.
Frame(id) == [id |-> id, pc |-> "files", i |-> 1, snap |-> files]

Top(h)       == h.stack[Len(h.stack)]
SetTop(h, f) == [h EXCEPT !.stack[Len(h.stack)] = f]

\* The next index from i on at which the loop's condition holds, 0 if none.
NextPlaced(snap, i, id) ==
  IF \E j \in i..Len(snap) : snap[j].folderId = id
  THEN CHOOSE j \in i..Len(snap) :
         /\ snap[j].folderId = id
         /\ \A m \in i..(j - 1) : snap[m].folderId # id
  ELSE 0

NextChild(fs, i, id) ==
  IF \E j \in i..Len(fs) : fs[j].parentId = id
  THEN CHOOSE j \in i..Len(fs) :
         /\ fs[j].parentId = id
         /\ \A m \in i..(j - 1) : fs[m].parentId # id
  ELSE 0

\* An exception leaves every nested call and reaches the handler's catch.
Caught(h) == [h EXCEPT !.stack = <<>>, !.pc = "respond", !.status = 500]

\* Handler k goes on as h, the store is left as s, and c has the thread.
Moves(k, h, s, c) ==
  /\ Leaves(s)
  /\ run' = [run EXCEPT ![k] = h]
  /\ cpu' = c
  /\ UNCHANGED <<uploads, now, last, issued, purged, pending>>

\* A request arrives.
Arrive(request) ==
  /\ request \notin pending
  /\ pending' = pending \cup {request}
  /\ UNCHANGED <<users, folders, files, dbUsers, dbFolders, dbFiles, disk, uploads,
                 now, last, issued, purged, run, cpu>>

\* No handler is inside a synchronous stretch (handlers may wait at an await).
Quiet == cpu = 0

\* The event loop takes its next callback when the promise jobs of the last
\* one have all run.  Every await of a handler, and the await inside
\* deleteFolder, is on a promise that settles by promise jobs alone, so a
\* handler that was called is not left in flight when the callback of the
\* next request runs.
Idle == run = <<>>

\* The event loop calls the handler of a waiting request: the handler runs
\* up to await storage.getFolderById / getFileById (routes.ts 128, 165, 381,
\* 416).
Dispatch(request) ==
  /\ request \in pending
  /\ Idle
  /\ pending' = pending \ {request}
  /\ run' = Append(run, Handler(request))
  /\ UNCHANGED <<users, folders, files, dbUsers, dbFolders, dbFiles, disk, uploads,
                 now, last, issued, purged, cpu>>

\* The handler goes on after its lookup.
Resumes(k, op) ==
  /\ k \in 1..Len(run)
  /\ cpu = 0
  /\ run[k].op = op
  /\ run[k].pc = "checked"

Owned(h) == h.found # <<>> /\ h.found[1].userId = h.user

\* if (!folder || folder.userId !== userId) return res.status(404).
NotFound(k) ==
  /\ k \in 1..Len(run)
  /\ cpu = 0
  /\ run[k].pc = "checked"
  /\ ~Owned(run[k])
  /\ Moves(k, [run[k] EXCEPT !.pc = "respond", !.status = 404], Store, 0)

\* await storage.updateFolder(folderId, updateData) (routes.ts 138-143).
UpdateFolderCall(k) ==
  LET r == updateFolder(Store, run[k].id, Sanitize(TrashPatch(now)))
  IN /\ Resumes(k, "patchFolder")
     /\ Owned(run[k])
     /\ Moves(k, [run[k] EXCEPT !.pc = "respond",
                                !.status = IF r.ret = 0 THEN 404 ELSE 200],
              r.st, 0)

\* await storage.updateFile(fileId, updateData) (routes.ts 391-395).
UpdateFileCall(k) ==
  LET r == updateFile(Store, run[k].id, Sanitize(TrashPatch(now)), now)
  IN /\ Resumes(k, "patchFile")
     /\ Owned(run[k])
     /\ Moves(k, [run[k] EXCEPT !.pc = "respond",
                                !.status = IF r.ret = 0 THEN 404 ELSE 200],
              r.st, 0)

\* storage.deleteFile(fileId) is called (routes.ts 426).
DeleteFileCall(k) ==
  /\ Resumes(k, "deleteFile")
  /\ Owned(run[k])
  /\ Moves(k, [run[k] EXCEPT !.pc = "splice", !.start = Store], Store, k)

\* deleteFile: findIndex, return false, or splice (storage.ts 250-253).
SpliceFile(k) ==
  LET h         == run[k]
      fileIndex == FindIndex(files, h.id)
  IN /\ k \in 1..Len(run) /\ cpu = k
     /\ h.pc = "splice"
     /\ IF fileIndex = 0
        THEN Moves(k, [h EXCEPT !.pc = "respond", !.status = 500], Store, 0)
        ELSE Moves(k, [h EXCEPT !.pc = "unlink", !.victim = <<files[fileIndex]>>],
                   [Store EXCEPT !.files = Splice(files, fileIndex)], k)

\* deleteFile: existsSync and unlinkSync (storage.ts 254-256).  unlinkSync
\* of a path that exists either removes it or throws (the file is busy, the
\* directory is not writable); nothing in deleteFile catches.
UnlinkFile(k, ok) ==
  LET h    == run[k]
      path == h.victim[1].path
      h2   == [h EXCEPT !.released = @ \cup {path}]
  IN /\ k \in 1..Len(run) /\ cpu = k
     /\ h.pc = "unlink" /\ h.op = "deleteFile"
     /\ IF path \in disk /\ ~ok
        THEN Moves(k, Caught(h2), Store, 0)
        ELSE /\ ok
             /\ Moves(k, [h2 EXCEPT !.pc = "save"],
                      [Store EXCEPT !.disk = Unlink(disk, path)], k)

\* deleteFile: saveFiles, return true (storage.ts 257-258).
SaveFile(k) ==
  LET h == run[k]
  IN /\ k \in 1..Len(run) /\ cpu = k
     /\ h.pc = "save"
     /\ Moves(k, [h EXCEPT !.pc = "respond", !.status = 204], saveFiles(Store), 0)

\* storage.deleteFolder(folderId) is called (routes.ts 174).
DeleteFolderCall(k) ==
  /\ Resumes(k, "deleteFolder")
  /\ Owned(run[k])
  /\ Moves(k, [run[k] EXCEPT !.pc = "call", !.start = Store,
                             !.stack = <<Frame(run[k].id)>>],
           Store, k)

\* The handler is inside deleteFolder, in the call on top of its stack.
Inside(k, pc) ==
  /\ k \in 1..Len(run)
  /\ cpu \in {0, k}
  /\ run[k].pc = "call"
  /\ Top(run[k]).pc = pc

\* deleteFolder, file loop (storage.ts 163-165): up to the next file placed
\* in the folder, and this.files = this.files.filter(f => f.id !== file.id).
FilesLoop(k) ==
  LET h == run[k]
      f == Top(h)
      j == NextPlaced(f.snap, f.i, f.id)
      Keep(x) == x.id # f.snap[j].id
  IN /\ Inside(k, "files")
     /\ IF j = 0
        THEN Moves(k, SetTop(h, [f EXCEPT !.pc = "folders", !.i = 1]), Store, k)
        ELSE Moves(k, SetTop(h, [f EXCEPT !.pc = "unlink", !.i = j]),
                   [Store EXCEPT !.files = SelectSeq(files, Keep)], k)

\* deleteFolder, file loop (storage.ts 166-168): existsSync and unlinkSync.
\* Nothing in deleteFolder catches.
ReleaseBytes(k, ok) ==
  LET h    == run[k]
      f    == Top(h)
      path == f.snap[f.i].path
      h2   == [h EXCEPT !.released = @ \cup {path}]
  IN /\ Inside(k, "unlink")
     /\ IF path \in disk /\ ~ok
        THEN Moves(k, Caught(h2), Store, 0)
        ELSE /\ ok
             /\ Moves(k, SetTop(h2, [f EXCEPT !.pc = "files", !.i = f.i + 1]),
                      [Store EXCEPT !.disk = Unlink(disk, path)], k)

\* deleteFolder, subfolder loop (storage.ts 173-175): the for-of walks
\* this.folders as it is now, up to the next folder under the id, and calls
\* deleteFolder for it.  A nesting past StackDepth ends in a RangeError.
FoldersLoop(k) ==
  LET h == run[k]
      f == Top(h)
      j == NextChild(folders, f.i, f.id)
  IN /\ Inside(k, "folders")
     /\ IF j = 0
        THEN Moves(k, SetTop(h, [f EXCEPT !.pc = "finish"]), Store, k)
        ELSE IF Len(h.stack) >= StackDepth
             THEN Moves(k, Caught(h), Store, 0)
             ELSE Moves(k, [h EXCEPT !.stack = Append(SetTop(h, [f EXCEPT !.i = j]).stack,
                                                      Frame(folders[j].id))],
                        Store, k)

\* deleteFolder, the end of a call (storage.ts 179-184): findIndex, return
\* false, or splice, saveFolders, return true.  The caller awaits the
\* promise: it leaves the thread and goes on, in a promise job, with the
\* next index of its loop, or, in the route, with the response.
Finish(k) ==
  LET h           == run[k]
      f           == Top(h)
      folderIndex == FindIndex(folders, f.id)
      s           == IF folderIndex = 0 THEN Store
                     ELSE saveFolders([Store EXCEPT !.folders =
                                         Splice(folders, folderIndex)])
      rest        == SubSeq(h.stack, 1, Len(h.stack) - 1)
  IN /\ Inside(k, "finish")
     /\ IF rest = <<>>
        THEN Moves(k, [h EXCEPT !.stack = rest, !.pc = "respond",
                                !.status = IF folderIndex = 0 THEN 500 ELSE 204],
                   s, 0)
        ELSE Moves(k, [h EXCEPT !.stack =
                         [rest EXCEPT ![Len(rest)] = [@ EXCEPT !.i = @ + 1]]],
                   s, 0)

\* res.status(...): the handler ends.
Respond(k) ==
  /\ k \in 1..Len(run)
  /\ cpu = 0
  /\ run[k].pc = "respond"
  /\ last' = [op |-> run[k].op, status |-> run[k].status]
  /\ run' = SubSeq(run, 1, k - 1) \o SubSeq(run, k + 1, Len(run))
  /\ purged' = purged \cup Gone(run[k].start.files, files)
  /\ UNCHANGED <<users, folders, files, dbUsers, dbFolders, dbFiles, disk, uploads,
                 now, issued, pending, cpu>>

(***************************************************************************)
(* SpecSteps: a user creates folders under the root or under folder 1 and   *)
(* uploads a file between requests, and sends hard deletes, one at a time.  *)
(***************************************************************************)
StepsFolders == 3    \* length of the folders array under SpecSteps
StepsFiles   == 1    \* length of the files array under SpecSteps
StepsUploads == 2    \* uploads accepted under SpecSteps

StepsFolderIds == 1..StepsFolders
StepsFileIds   == 1..StepsFiles

StepsRequests ==
  {[op |-> "deleteFolder", user |-> user, id |-> id] :
     user \in Callers, id \in StepsFolderIds}
  \cup {[op |-> "deleteFile", user |-> user, id |-> id] :
     user \in Callers, id \in StepsFileIds}

NextSteps ==
  \/ /\ Idle /\ pending = {}
     /\ Len(folders) < StepsFolders
     /\ \E user \in Callers, parentId \in {Null, 1} : PostFolder(user, parentId)
  \/ /\ Idle /\ pending = {}
     /\ Len(files) < StepsFiles
     /\ uploads < StepsUploads
     /\ \E user \in Callers : Upload(user, 1, <<1>>)
  \/ /\ Idle /\ pending = {}
     /\ \E request \in StepsRequests : Arrive(request)
  \/ \E request \in StepsRequests : Dispatch(request)
  \/ \E k \in 1..Len(run) : NotFound(k)
  \/ \E k \in 1..Len(run) : DeleteFileCall(k)
  \/ \E k \in 1..Len(run) : SpliceFile(k)
  \/ \E k \in 1..Len(run), ok \in BOOLEAN : UnlinkFile(k, ok)
  \/ \E k \in 1..Len(run) : SaveFile(k)
  \/ \E k \in 1..Len(run) : DeleteFolderCall(k)
  \/ \E k \in 1..Len(run) : FilesLoop(k)
  \/ \E k \in 1..Len(run), ok \in BOOLEAN : ReleaseBytes(k, ok)
  \/ \E k \in 1..Len(run) : FoldersLoop(k)
  \/ \E k \in 1..Len(run) : Finish(k)
  \/ \E k \in 1..Len(run) : Respond(k)

SpecSteps == Init /\ [][NextSteps]_vars

\* The steps of a hard delete in which no unlink fails compose to the
\* operators deleteFolder and deleteFile above.
StepsAgreeStep ==
  \A k \in 1..Len(run) :
    /\ (Finish(k) /\ Len(run[k].stack) = 1)
         => LET r == deleteFolder(run[k].start, run[k].id)
            IN /\ ~r.threw
               /\ Store' = r.st
               /\ run'[k].status = IF r.ret THEN 204 ELSE 500
    /\ SaveFile(k)
         => LET r == deleteFile(run[k].start, run[k].id)
            IN r.ret /\ Store' = r.st

StepsAgree == [][StepsAgreeStep]_vars

(***************************************************************************)
(* C21.  Best-effort byte release: when the release of a file's bytes fails *)
(* during deleteFile or during a deleteFolder cascade, the operation still  *)
(* removes, in memory and in the JSON files, every record it would have     *)
(* removed had the release succeeded, and it ends with its normal success   *)
(* result instead of an error.                                              *)
(***************************************************************************)
\* The records in memory and in the JSON files are those of s.
SameRecords(s) ==
  /\ folders = s.folders /\ dbFolders = s.dbFolders
  /\ files = s.files /\ dbFiles = s.dbFiles

C21_RespondStep ==
  \A k \in 1..Len(run) :
    (Respond(k) /\ Owned(run[k]))
      => /\ run[k].op = "deleteFile"
              => LET r == deleteFile(run[k].start, run[k].id)
                 IN r.ret => SameRecords(r.st) /\ last'.status = 204
         /\ run[k].op = "deleteFolder"
              => LET r == deleteFolder(run[k].start, run[k].id)
                 IN (~r.threw /\ r.ret) => SameRecords(r.st) /\ last'.status = 204

C21_BestEffortRelease == [][C21_RespondStep]_vars

(***************************************************************************)
(* C24.  Release precedes metadata removal: for every file that deleteFile  *)
(* or a deleteFolder cascade hard-deletes, the release of the file's path   *)
(* is called before the record leaves the store, so in no state between     *)
(* the steps of the operation is a record gone for which the release has    *)
(* not been attempted.                                                      *)
(***************************************************************************)
C24_ReleaseFirst ==
  \A k \in 1..Len(run) :
    \A i \in 1..Len(run[k].start.files) :
      LET file == run[k].start.files[i]
      IN (\A j \in 1..Len(files) : files[j] # file)
           => file.path \in run[k].released

(***************************************************************************)
(* C23.  Post-order deletion: at every step of deleteFolder(id) a folder    *)
(* record is removed only after its child folders and the files in it, so   *)
(* no remaining folder's parentId and no remaining file's folderId refers   *)
(* to a folder record that the operation has removed.                       *)
(***************************************************************************)
\* The ids of the folder records of before that are not in after, and that
\* no record of after carries.
RemovedIds(before, after) ==
  {before[i].id : i \in 1..Len(before)} \ {after[i].id : i \in 1..Len(after)}

C23_PostOrder ==
  \A k \in 1..Len(run) :
    (run[k].op = "deleteFolder" /\ run[k].pc \in {"call", "respond"})
      => LET removed == RemovedIds(run[k].start.folders, folders)
         IN /\ \A i \in 1..Len(folders) : folders[i].parentId \notin removed
            /\ \A i \in 1..Len(files) : files[i].folderId \notin removed

(***************************************************************************)
(* C25.  Cascade atomicity: no other request's operation runs against a     *)
(* state in which part of the subtree of a deleteFolder(id) has been        *)
(* removed and part is still there; every other operation sees the whole    *)
(* subtree or none of it.  Another request's handler is called when no      *)
(* handler is in flight (Idle), so the property is one of the states in     *)
(* which that is so.                                                        *)
(***************************************************************************)
\* The folder records under id (id included) and the file records in them.
SubtreeFolders(s, id) ==
  {s.folders[i] : i \in {j \in 1..Len(s.folders) :
                           s.folders[j].id \in SubtreeIds(s.folders, {id})}}

SubtreeFiles(s, id) ==
  {s.files[i] : i \in {j \in 1..Len(s.files) :
                         s.files[j].folderId \in SubtreeIds(s.folders, {id})}}

C25_CascadeStep ==
  \A k \in 1..Len(run) :
    (/\ run[k].op = "deleteFolder"
     /\ run[k].pc \in {"call", "respond"}
     /\ Idle')
      => LET subFolders == SubtreeFolders(run[k].start, run[k].id)
             subFiles   == SubtreeFiles(run[k].start, run[k].id)
             leftFolders == {f \in subFolders : \E i \in 1..Len(folders') : folders'[i] = f}
             leftFiles   == {f \in subFiles : \E i \in 1..Len(files') : files'[i] = f}
         IN \/ leftFolders = {} /\ leftFiles = {}
            \/ leftFolders = subFolders /\ leftFiles = subFiles

C25_CascadeAtomic == [][C25_CascadeStep]_vars

(***************************************************************************)
(* SpecLoop: two users create folders and upload a file between requests,   *)
(* and send update and delete requests, which arrive at any time and wait   *)
(* for the event loop.                                                      *)
(***************************************************************************)
LoopUsers   == 2    \* user records under SpecLoop
LoopFolders == 2    \* length of the folders array under SpecLoop
LoopFiles   == 1    \* length of the files array under SpecLoop
LoopUploads == 1    \* uploads accepted under SpecLoop
LoopPending == 1    \* requests waiting at a time under SpecLoop

LoopFolderIds == 1..LoopFolders
LoopFileIds   == 1..LoopFiles

LoopRequests ==
  {[op |-> op, user |-> user, id |-> id] :
     op \in {"patchFolder", "deleteFolder"}, user \in Callers, id \in LoopFolderIds}
  \cup {[op |-> op, user |-> user, id |-> id] :
     op \in {"patchFile", "deleteFile"}, user \in Callers, id \in LoopFileIds}

NextLoop ==
  \/ /\ Idle
     /\ Len(users) < LoopUsers
     /\ \E username \in Usernames : Register(username)
  \/ /\ Idle
     /\ Len(folders) < LoopFolders
     /\ \E user \in Callers : PostFolder(user, Null)
  \/ /\ Idle
     /\ Len(files) < LoopFiles
     /\ uploads < LoopUploads
     /\ \E user \in Callers : Upload(user, 1, <<1>>)
  \/ /\ Cardinality(pending) < LoopPending
     /\ \E request \in LoopRequests : Arrive(request)
  \/ \E request \in LoopRequests : Dispatch(request)
  \/ \E k \in 1..Len(run) : NotFound(k)
  \/ \E k \in 1..Len(run) : UpdateFolderCall(k)
  \/ \E k \in 1..Len(run) : UpdateFileCall(k)
  \/ \E k \in 1..Len(run) : DeleteFileCall(k)
  \/ \E k \in 1..Len(run) : SpliceFile(k)
  \/ \E k \in 1..Len(run), ok \in BOOLEAN : UnlinkFile(k, ok)
  \/ \E k \in 1..Len(run) : SaveFile(k)
  \/ \E k \in 1..Len(run) : DeleteFolderCall(k)
  \/ \E k \in 1..Len(run) : FilesLoop(k)
  \/ \E k \in 1..Len(run), ok \in BOOLEAN : ReleaseBytes(k, ok)
  \/ \E k \in 1..Len(run) : FoldersLoop(k)
  \/ \E k \in 1..Len(run) : Finish(k)
  \/ \E k \in 1..Len(run) : Respond(k)

SpecLoop == Init /\ [][NextLoop]_vars

(***************************************************************************)
(* C26.  Check-then-act atomicity of the handlers: in the folder and file   *)
(* update and delete handlers, which await a lookup to check the owner and  *)
(* then await the mutation by id, the record that is modified or removed    *)
(* is, whatever the order in which concurrent requests arrive and are       *)
(* served, the record on which the ownership check succeeded.               *)
(***************************************************************************)
\* The record of arr that a mutation by id acts on is the one h has checked.
ActsOnChecked(h, arr) ==
  LET i == FindIndex(arr, h.id)
  IN i # 0 => arr[i] = h.found[1]

C26_ActStep ==
  \A k \in 1..Len(run) :
    /\ UpdateFolderCall(k) => ActsOnChecked(run[k], folders)
    /\ UpdateFileCall(k) => ActsOnChecked(run[k], files)
    /\ SpliceFile(k) => ActsOnChecked(run[k], files)
    /\ (Finish(k) /\ Len(run[k].stack) = 1) => ActsOnChecked(run[k], folders)

====
